---- MODULE Spec2Model ----
(***************************************************************************)
(* Model of dontbug's engine core (src/engine/base.go): the execution      *)
(* controller continueExecution with its stop-notification channel and     *)
(* breakpoint registry, the DBGp command parser parseCommand and the DBGp  *)
(* packet framing constructDbgpPacket.                                     *)
(*                                                                         *)
(* Strings that the code indexes byte by byte are sequences: a command     *)
(* line is a sequence of one-character strings, a packet is a sequence of  *)
(* byte values 0..255.                                                     *)
(***************************************************************************)
EXTENDS Integers, Sequences, FiniteSets, TLC

VARIABLES
    status,           \* es.status
    breakpoints,      \* es.breakpoints: id -> [temporary, enabled]
    breakStopNotify,  \* es.breakStopNotify: the ids offered on the channel
    pc,               \* where the dispatch loop is: "idle", "waiting" (blocked
                      \* on line 246) or "exited" (log.Fatalf ended the process)
    reverse,          \* the reverse argument of the current/last continueExecution
    ret,              \* what the last continueExecution returned
    gdbLog,           \* gdbSession.Send calls and channel receives, in order
    gdbRunning,       \* the native debugger is executing an exec-continue
    oneShotGone,      \* ids deleted by a temporary hit and not registered since
    ideTokens,        \* tokens the IDE has put on the line being read
    ideLine,          \* the raw command line read from the IDE connection
    reverseMode,      \* the session's ambient reverse mode passed to parseCommand
    dCmd,             \* the dbgpCmd parseCommand returned
    parsePc,          \* "reading", "returned" or "panicked"
    overrideSeen,     \* an earlier command's -z overrode the ambient mode
    payload,          \* argument of constructDbgpPacket
    packet,           \* bytes constructDbgpPacket returned
    framePc,          \* "ready" or "done"
    gdbText,          \* the string handed to the string decoders
    strCall,          \* which decoder ran: "none", "unquote" or "parse"
    strPc,            \* "ready", "returned" or "panicked"
    strOut,           \* the string the decoder returned
    strErr,           \* whether parseGdbStringResponse returned an error
    VerboseFlag,      \* the package variable VerboseFlag
    verboseAtStart,   \* the value VerboseFlag had when the session began
    noisyStack,       \* the noisy calls in progress, outermost first, each
                      \* with its local originalNoisy
    noisyCalls,       \* adapter and handler calls begun so far
    lastTraced,       \* whether the latest sendGdbCommand printed its trace
    verbosePc,        \* "alive", or "exited" after a fatal error or panic
    xResult,          \* the response sendGdbCommand handed to xGdbCmdValue
    xPc,              \* "ready", "returned", "panicked" or "exited"
    xOut,             \* the string xGdbCmdValue returned
    lastSequenceNum,  \* es.lastSequenceNum
    reason,           \* es.reason
    featureMap,       \* es.featureMap
    sourceMap,        \* es.sourceMap
    esAtStart         \* the session fields as they were at the start of the run

vars == <<status, breakpoints, breakStopNotify, pc, reverse, ret, gdbLog,
          gdbRunning, oneShotGone, ideTokens, ideLine, reverseMode, dCmd,
          parsePc, overrideSeen, payload, packet, framePc, gdbText, strCall,
          strPc, strOut, strErr, VerboseFlag, verboseAtStart, noisyStack,
          noisyCalls, lastTraced, verbosePc, xResult, xPc, xOut,
          lastSequenceNum, reason, featureMap, sourceMap, esAtStart>>

engineVars == <<status, breakpoints, breakStopNotify, pc, reverse, ret, gdbLog,
                gdbRunning, oneShotGone>>
parseVars == <<ideTokens, ideLine, reverseMode, dCmd, parsePc, overrideSeen>>
frameVars == <<payload, packet, framePc>>
stringVars == <<gdbText, strCall, strPc, strOut, strErr>>
evalVars == <<xResult, xPc, xOut>>
sessionVars == <<lastSequenceNum, reason, featureMap, sourceMap, esAtStart>>
verboseVars == <<VerboseFlag, verboseAtStart, noisyStack, noisyCalls, lastTraced,
                 verbosePc>>

(***************************************************************************)
(* Bounds                                                                  *)
(***************************************************************************)
MaxCalls == 3        \* continueExecution calls in one run
MaxArgs == 4         \* tokens after the verb on one command line
MaxPrefixLen == 3    \* freely chosen leading bytes of a payload
MaxTextLen == 4      \* characters of a string handed to the string decoders
MaxNoisyCalls == 4   \* adapter and handler calls in one run
MaxNoisyDepth == 3   \* noisy calls in progress at once
MaxValueLen == 2     \* characters of a payload's value field

(***************************************************************************)
(* Session state                                                           *)
(***************************************************************************)
statusStarting == "starting"
statusStopping == "stopping"
statusStopped == "stopped"
statusRunning == "running"
statusBreak == "break"

reasonOk == "ok"
reasonError == "error"

\* The fields of the session that the handlers of the dispatch loop own
SessionFields ==
    [breakpoints |-> breakpoints, lastSequenceNum |-> lastSequenceNum,
     reason |-> reason, featureMap |-> featureMap, sourceMap |-> sourceMap]

BreakIds == {"1", "2"}            \* ids the registry hands out
StopIds == BreakIds \cup {"9"}    \* ids the native debugger may stop on
NoRet == [id |-> "", hit |-> FALSE]

engineBreakPoint == [temporary : BOOLEAN, enabled : BOOLEAN]

isEnabledPhpTemporaryBreakpoint(bps, id) ==
    /\ id \in DOMAIN bps
    /\ bps[id].enabled
    /\ bps[id].temporary

isEnabledPhpBreakpoint(bps, id) ==
    /\ id \in DOMAIN bps
    /\ bps[id].enabled
    /\ ~bps[id].temporary

\* delete(es.breakpoints, breakID)
deleteBreakpoint(bps, id) == [k \in (DOMAIN bps) \ {id} |-> bps[k]]

InitEngine ==
    /\ status = statusStarting
    /\ breakpoints = [k \in {} |-> [temporary |-> FALSE, enabled |-> FALSE]]
    /\ breakStopNotify = <<>>
    /\ pc = "idle"
    /\ reverse = FALSE
    /\ ret = NoRet
    /\ gdbLog = <<>>
    /\ gdbRunning = FALSE
    /\ oneShotGone = {}

\* A session on which no handler has run yet
InitSessionIdle ==
    /\ lastSequenceNum = 0
    /\ reason = reasonOk
    /\ featureMap = <<>>
    /\ sourceMap = <<>>
    /\ esAtStart = [breakpoints |-> <<>>, lastSequenceNum |-> 0, reason |-> reasonOk,
                    featureMap |-> <<>>, sourceMap |-> <<>>]

(***************************************************************************)
(* Native-debugger adapter                                                 *)
(***************************************************************************)
NumSends == Cardinality({i \in 1..Len(gdbLog) : gdbLog[i].kind = "send"})

\* sendGdbCommand: one gdbSession.Send; fatalIf ends the process when it fails,
\* otherwise the native debugger starts executing the request.
sendGdbCommand(command, arguments, sendOk) ==
    /\ gdbLog' = Append(gdbLog, [kind |-> "send", data |-> <<command>> \o arguments])
    /\ gdbRunning' = sendOk

\* The background listener of the native debugger's event stream: it pushes
\* the stop id of the running exec-continue into the notification channel.
stopNotify(id) ==
    /\ gdbRunning
    /\ breakStopNotify = <<>>
    /\ breakStopNotify' = <<id>>
    /\ gdbRunning' = FALSE
    /\ UNCHANGED <<status, breakpoints, pc, reverse, ret, gdbLog, oneShotGone>>
    /\ UNCHANGED <<parseVars, frameVars, stringVars, verboseVars, evalVars, sessionVars>>

(***************************************************************************)
(* Breakpoint registry handlers of the dispatch loop                       *)
(***************************************************************************)
breakpointSet(id, temporary, enabled) ==
    /\ pc = "idle"
    /\ id \notin DOMAIN breakpoints
    /\ breakpoints' = [k \in (DOMAIN breakpoints) \cup {id} |->
                          IF k = id
                          THEN [temporary |-> temporary, enabled |-> enabled]
                          ELSE breakpoints[k]]
    /\ oneShotGone' = oneShotGone \ {id}
    /\ UNCHANGED <<status, breakStopNotify, pc, reverse, ret, gdbLog, gdbRunning>>
    /\ UNCHANGED <<parseVars, frameVars, stringVars, verboseVars, evalVars, sessionVars>>

breakpointRemove(id) ==
    /\ pc = "idle"
    /\ id \in DOMAIN breakpoints
    /\ breakpoints' = deleteBreakpoint(breakpoints, id)
    /\ UNCHANGED <<status, breakStopNotify, pc, reverse, ret, gdbLog, gdbRunning,
                   oneShotGone>>
    /\ UNCHANGED <<parseVars, frameVars, stringVars, verboseVars, evalVars, sessionVars>>

(***************************************************************************)
(* Execution controller: continueExecution                                 *)
(***************************************************************************)
\* Variant of continueArguments that drops the reverse modifier.
continueArgumentsForwardOnly(rev) == <<>>

\* lines 239-243: the arguments of the exec-continue request
continueArguments(rev) == IF rev THEN <<"--reverse">> ELSE <<>>

\* Variant of continueExecutionCall that leaves es.status as it was.
continueExecutionCallKeepsStatus(rev, sendOk) ==
    /\ pc = "idle"
    /\ NumSends < MaxCalls
    /\ reverse' = rev
    /\ ret' = NoRet
    /\ sendGdbCommand("exec-continue", continueArguments(rev), sendOk)
    /\ pc' = IF sendOk THEN "waiting" ELSE "exited"
    /\ UNCHANGED <<status, breakpoints, breakStopNotify, oneShotGone>>
    /\ UNCHANGED <<parseVars, frameVars, stringVars, verboseVars, evalVars, sessionVars>>

\* Variant of continueExecutionCall whose if has no else: a reverse continue
\* sends the reverse request and then the plain one as well.
continueExecutionCallNoElse(rev, sendOk) ==
    /\ pc = "idle"
    /\ NumSends < MaxCalls
    /\ status' = statusRunning
    /\ reverse' = rev
    /\ ret' = NoRet
    /\ gdbLog' = gdbLog
                 \o (IF rev
                     THEN <<[kind |-> "send", data |-> <<"exec-continue", "--reverse">>]>>
                     ELSE <<>>)
                 \o <<[kind |-> "send", data |-> <<"exec-continue">>]>>
    /\ gdbRunning' = sendOk
    /\ pc' = IF sendOk THEN "waiting" ELSE "exited"
    /\ UNCHANGED <<breakpoints, breakStopNotify, oneShotGone>>
    /\ UNCHANGED <<parseVars, frameVars, stringVars, verboseVars, evalVars, sessionVars>>

\* Variant of continueExecutionCall that hands a failed Send back to its
\* caller, which may then send the request again.
continueExecutionCallRetries(rev, sendOk) ==
    /\ pc = "idle"
    /\ NumSends < MaxCalls
    /\ status' = statusRunning
    /\ reverse' = rev
    /\ ret' = NoRet
    /\ sendGdbCommand("exec-continue", continueArguments(rev), sendOk)
    /\ pc' = IF sendOk THEN "waiting" ELSE "idle"
    /\ UNCHANGED <<breakpoints, breakStopNotify, oneShotGone>>
    /\ UNCHANGED <<parseVars, frameVars, stringVars, verboseVars, evalVars, sessionVars>>

\* lines 238-243, up to the blocking receive of line 246
continueExecutionCall(rev, sendOk) ==
    /\ pc = "idle"
    /\ NumSends < MaxCalls
    /\ status' = statusRunning
    /\ reverse' = rev
    /\ ret' = NoRet
    /\ sendGdbCommand("exec-continue", continueArguments(rev), sendOk)
    /\ pc' = IF sendOk THEN "waiting" ELSE "exited"
    /\ UNCHANGED <<breakpoints, breakStopNotify, oneShotGone>>
    /\ UNCHANGED <<parseVars, frameVars, stringVars, verboseVars, evalVars, sessionVars>>

\* Variant of classifyStop that forgets delete(es.breakpoints, breakID).
classifyStopNoDelete(bps, breakID) ==
    IF isEnabledPhpTemporaryBreakpoint(bps, breakID)
    THEN [breakpoints |-> bps, ret |-> [id |-> breakID, hit |-> TRUE]]
    ELSE IF isEnabledPhpBreakpoint(bps, breakID)
         THEN [breakpoints |-> bps, ret |-> [id |-> breakID, hit |-> TRUE]]
         ELSE [breakpoints |-> bps, ret |-> [id |-> breakID, hit |-> FALSE]]

\* Variant of classifyStop that withholds the id of a stop that is no
\* breakpoint hit.
classifyStopHidesId(bps, breakID) ==
    IF isEnabledPhpTemporaryBreakpoint(bps, breakID)
    THEN [breakpoints |-> deleteBreakpoint(bps, breakID),
          ret |-> [id |-> breakID, hit |-> TRUE]]
    ELSE IF isEnabledPhpBreakpoint(bps, breakID)
         THEN [breakpoints |-> bps, ret |-> [id |-> breakID, hit |-> TRUE]]
         ELSE [breakpoints |-> bps, ret |-> [id |-> "", hit |-> FALSE]]

\* Variant of classifyStop that empties the registry on a temporary hit.
classifyStopClears(bps, breakID) ==
    IF isEnabledPhpTemporaryBreakpoint(bps, breakID)
    THEN [breakpoints |-> [k \in {} |-> bps[k]],
          ret |-> [id |-> breakID, hit |-> TRUE]]
    ELSE IF isEnabledPhpBreakpoint(bps, breakID)
         THEN [breakpoints |-> bps, ret |-> [id |-> breakID, hit |-> TRUE]]
         ELSE [breakpoints |-> bps, ret |-> [id |-> breakID, hit |-> FALSE]]

\* lines 251-260: reconcile the stop id with the registry
classifyStop(bps, breakID) ==
    IF isEnabledPhpTemporaryBreakpoint(bps, breakID)
    THEN [breakpoints |-> deleteBreakpoint(bps, breakID),
          ret |-> [id |-> breakID, hit |-> TRUE]]
    ELSE IF isEnabledPhpBreakpoint(bps, breakID)
         THEN [breakpoints |-> bps, ret |-> [id |-> breakID, hit |-> TRUE]]
         ELSE [breakpoints |-> bps, ret |-> [id |-> breakID, hit |-> FALSE]]

\* Variant of continueExecutionReturn with a non-blocking receive: with no
\* stop event on the channel it gives up and returns the empty id.
continueExecutionReturnNoWait ==
    /\ pc = "waiting"
    /\ LET breakID == IF breakStopNotify = <<>> THEN "" ELSE Head(breakStopNotify)
           r == classifyStop(breakpoints, breakID)
       IN  /\ breakStopNotify' =
                 IF breakStopNotify = <<>> THEN <<>> ELSE Tail(breakStopNotify)
           /\ gdbLog' = Append(gdbLog, [kind |-> "recv", data |-> <<breakID>>])
           /\ status' = statusBreak
           /\ breakpoints' = r.breakpoints
           /\ ret' = r.ret
           /\ oneShotGone' =
                 IF isEnabledPhpTemporaryBreakpoint(breakpoints, breakID)
                 THEN oneShotGone \cup {breakID}
                 ELSE oneShotGone
    /\ pc' = "idle"
    /\ UNCHANGED <<reverse, gdbRunning>>
    /\ UNCHANGED <<parseVars, frameVars, stringVars, verboseVars, evalVars, sessionVars>>

\* lines 246-261: the receive unblocks, status becomes break, the stop is
\* classified and the call returns
continueExecutionReturn ==
    /\ pc = "waiting"
    /\ breakStopNotify # <<>>
    /\ LET breakID == Head(breakStopNotify)
           r == classifyStop(breakpoints, breakID)
       IN  /\ breakStopNotify' = Tail(breakStopNotify)
           /\ gdbLog' = Append(gdbLog, [kind |-> "recv", data |-> <<breakID>>])
           /\ status' = statusBreak
           /\ breakpoints' = r.breakpoints
           /\ ret' = r.ret
           /\ oneShotGone' =
                 IF isEnabledPhpTemporaryBreakpoint(breakpoints, breakID)
                 THEN oneShotGone \cup {breakID}
                 ELSE oneShotGone
    /\ pc' = "idle"
    /\ UNCHANGED <<reverse, gdbRunning>>
    /\ UNCHANGED <<parseVars, frameVars, stringVars, verboseVars, evalVars, sessionVars>>

(***************************************************************************)
(* Protocol codec: parseCommand                                            *)
(***************************************************************************)
\* A string is the sequence of its bytes. A printable ASCII byte, tab,
\* newline, form feed and carriage return are written as that character,
\* every other byte as its two hexadecimal digits ("0B", "C2", "A0").
HighBytes ==
    <<"80", "81", "82", "83", "84", "85", "86", "87", "88", "89", "8A", "8B",
      "8C", "8D", "8E", "8F", "90", "91", "92", "93", "94", "95", "96", "97",
      "98", "99", "9A", "9B", "9C", "9D", "9E", "9F", "A0", "A1", "A2", "A3",
      "A4", "A5", "A6", "A7", "A8", "A9", "AA", "AB", "AC", "AD", "AE", "AF",
      "B0", "B1", "B2", "B3", "B4", "B5", "B6", "B7", "B8", "B9", "BA", "BB",
      "BC", "BD", "BE", "BF", "C0", "C1", "C2", "C3", "C4", "C5", "C6", "C7",
      "C8", "C9", "CA", "CB", "CC", "CD", "CE", "CF", "D0", "D1", "D2", "D3",
      "D4", "D5", "D6", "D7", "D8", "D9", "DA", "DB", "DC", "DD", "DE", "DF",
      "E0", "E1", "E2", "E3", "E4", "E5", "E6", "E7", "E8", "E9", "EA", "EB",
      "EC", "ED", "EE", "EF", "F0", "F1", "F2", "F3", "F4", "F5", "F6", "F7",
      "F8", "F9", "FA", "FB", "FC", "FD", "FE", "FF">>

\* The value of a byte of 0x80 and above; 0 for an ASCII byte
HighByteValue(b) ==
    IF \E j \in 1..128 : HighBytes[j] = b
    THEN 127 + (CHOOSE j \in 1..128 : HighBytes[j] = b)
    ELSE 0

\* The bytes for which unicode.IsSpace holds: tab, newline, vertical tab,
\* form feed, carriage return and space
AsciiWhitespace == {"\t", "\n", "0B", "\f", "\r", " "}

\* The other runes for which unicode.IsSpace holds, each as its UTF-8 bytes:
\* U+0085, U+00A0, U+1680, U+2000 to U+200A, U+2028, U+2029, U+202F, U+205F
\* and U+3000
WideWhitespace ==
    {<<"C2", "85">>, <<"C2", "A0">>, <<"E1", "9A", "80">>,
     <<"E2", "80", "A8">>, <<"E2", "80", "A9">>, <<"E2", "80", "AF">>,
     <<"E2", "81", "9F">>, <<"E3", "80", "80">>}
    \cup {<<"E2", "80", b>> :
             b \in {"80", "81", "82", "83", "84", "85", "86", "87", "88", "89", "8A"}}

\* The first and the last bytes of the runes of WideWhitespace
WideLeads == {w[1] : w \in WideWhitespace}
WideLasts == {w[Len(w)] : w \in WideWhitespace}

\* What strings.Fields splits on and strings.TrimSpace removes
Whitespace == {<<b>> : b \in AsciiWhitespace} \cup WideWhitespace

\* The number of bytes of the whitespace rune that starts at s[i], 0 when
\* none does. A whitespace rune starts with an ASCII byte or a UTF-8 lead
\* byte, so it is found at the start of a rune only.
SpaceLenAt(s, i) ==
    IF i > Len(s) THEN 0
    ELSE IF s[i] \in AsciiWhitespace THEN 1
    ELSE IF s[i] \notin WideLeads THEN 0
    ELSE IF \E n \in 2..3 : i + n - 1 <= Len(s) /\ SubSeq(s, i, i + n - 1) \in Whitespace
    THEN CHOOSE n \in 2..3 : i + n - 1 <= Len(s) /\ SubSeq(s, i, i + n - 1) \in Whitespace
    ELSE 0

\* The number of bytes of the whitespace rune that ends s, 0 when none does
SpaceLenAtEnd(s) ==
    IF s = <<>> THEN 0
    ELSE IF s[Len(s)] \in AsciiWhitespace THEN 1
    ELSE IF s[Len(s)] \notin WideLasts THEN 0
    ELSE IF \E n \in 2..3 : n <= Len(s) /\ SubSeq(s, Len(s) - n + 1, Len(s)) \in Whitespace
    THEN CHOOSE n \in 2..3 : n <= Len(s) /\ SubSeq(s, Len(s) - n + 1, Len(s)) \in Whitespace
    ELSE 0

DigitChars == <<"0", "1", "2", "3", "4", "5", "6", "7", "8", "9">>
IsDigit(c) == \E d \in 1..10 : DigitChars[d] = c
DigitValue(c) == (CHOOSE d \in 1..10 : DigitChars[d] = c) - 1

\* strings.Fields: the maximal runs of bytes without a whitespace rune, in order
RECURSIVE FieldsFrom(_, _, _, _)
FieldsFrom(s, i, cur, acc) ==
    IF i > Len(s)
    THEN IF cur = <<>> THEN acc ELSE Append(acc, cur)
    ELSE IF SpaceLenAt(s, i) > 0
         THEN FieldsFrom(s, i + SpaceLenAt(s, i), <<>>,
                         IF cur = <<>> THEN acc ELSE Append(acc, cur))
         ELSE FieldsFrom(s, i + 1, Append(cur, s[i]), acc)

Fields(s) == FieldsFrom(s, 1, <<>>, <<>>)

\* strings.TrimSpace: drop the leading and the trailing whitespace runes
RECURSIVE TrimLeft(_)
TrimLeft(s) ==
    IF SpaceLenAt(s, 1) > 0
    THEN TrimLeft(SubSeq(s, SpaceLenAt(s, 1) + 1, Len(s)))
    ELSE s

RECURSIVE TrimRight(_)
TrimRight(s) ==
    IF SpaceLenAtEnd(s) > 0
    THEN TrimRight(SubSeq(s, 1, Len(s) - SpaceLenAtEnd(s)))
    ELSE s

TrimSpace(s) == TrimRight(TrimLeft(s))

\* flags[key] = value
MapPut(flags, key, value) ==
    [k \in (DOMAIN flags) \cup {key} |-> IF k = key THEN value ELSE flags[k]]

NoFlags == [k \in {} |-> <<>>]

\* Variant of parseFlags that keeps the leading marker in the key.
RECURSIVE parseFlagsKeepsMarker(_, _, _)
parseFlagsKeepsMarker(components, i, flags) ==
    IF i >= Len(components) - 1
    THEN flags
    ELSE IF i % 2 = 1
         THEN parseFlagsKeepsMarker(components, i + 1, flags)
         ELSE LET v == components[i + 2]
                  key == TrimSpace(v)
                  value == IF i + 2 < Len(components)
                           THEN TrimSpace(components[i + 3])
                           ELSE <<>>
              IN  parseFlagsKeepsMarker(components, i + 1, MapPut(flags, key, value))

\* lines 154-165: the loop over components[1:], i counting from 0; the entry
\* at i is components[i+1] in the code and components[i+2] here (1-based).
RECURSIVE parseFlags(_, _, _)
parseFlags(components, i, flags) ==
    IF i >= Len(components) - 1
    THEN flags
    ELSE IF i % 2 = 1
         THEN parseFlags(components, i + 1, flags)
         ELSE LET v == components[i + 2]
                  key == Tail(TrimSpace(v))
                  value == IF i + 2 < Len(components)
                           THEN TrimSpace(components[i + 3])
                           ELSE <<>>
              IN  parseFlags(components, i + 1, MapPut(flags, key, value))

\* Value of a non-empty run of decimal digits
RECURSIVE DecimalValue(_)
DecimalValue(ds) ==
    IF ds = <<>> THEN 0
    ELSE 10 * DecimalValue(SubSeq(ds, 1, Len(ds) - 1)) + DigitValue(ds[Len(ds)])

\* A run of digits without its leading zeros
RECURSIVE StripZeros(_)
StripZeros(ds) == IF ds # <<>> /\ ds[1] = "0" THEN StripZeros(Tail(ds)) ELSE ds

\* a <= b for two runs of digits of the same length
RECURSIVE DigitsLeq(_, _)
DigitsLeq(a, b) ==
    IF a = <<>> THEN TRUE
    ELSE IF DigitValue(a[1]) # DigitValue(b[1])
         THEN DigitValue(a[1]) < DigitValue(b[1])
         ELSE DigitsLeq(Tail(a), Tail(b))

\* The largest magnitude of a 64-bit int: 2^63 - 1, and 2^63 below zero
MaxIntDigits(negative) ==
    <<"9", "2", "2", "3", "3", "7", "2", "0", "3", "6", "8", "5", "4", "7", "7", "5",
      "8", "0">> \o (IF negative THEN <<"8">> ELSE <<"7">>)

\* Whether the digits denote a magnitude an int holds (int is 64 bits wide)
InIntRange(digits, negative) ==
    LET sig == StripZeros(digits)
    IN  \/ Len(sig) < Len(MaxIntDigits(negative))
        \/ /\ Len(sig) = Len(MaxIntDigits(negative))
           /\ DigitsLeq(sig, MaxIntDigits(negative))

\* strconv.Atoi: an optional sign and then one or more decimal digits that
\* denote a number within the range of int; an error otherwise
Atoi(s) ==
    LET signed == s # <<>> /\ s[1] \in {"+", "-"}
        digits == IF signed THEN Tail(s) ELSE s
    IN  IF digits = <<>> \/ \E j \in 1..Len(digits) : ~IsDigit(digits[j])
        THEN [ok |-> FALSE, value |-> 0]
        ELSE IF ~InIntRange(digits, signed /\ s[1] = "-")
        THEN [ok |-> FALSE, value |-> 0]
        ELSE [ok |-> TRUE,
              value |-> IF signed /\ s[1] = "-"
                        THEN 0 - DecimalValue(digits)
                        ELSE DecimalValue(digits)]

\* Variant of seqNumOf that is not relaxed about a missing -i: it converts
\* flags["i"] whether or not the flag is there.
seqNumOfStrict(flags) ==
    Atoi(IF <<"i">> \in DOMAIN flags THEN flags[<<"i">>] ELSE <<>>)

\* Variant of seqNumOf whose conversion result goes to a shadowing seqInt
\* (":=" in the else block): the outer seqInt stays 0.
seqNumOfShadowed(flags) ==
    IF <<"i">> \notin DOMAIN flags
    THEN [ok |-> TRUE, value |-> 0]
    ELSE [ok |-> Atoi(flags[<<"i">>]).ok, value |-> 0]

\* lines 169-177: seqInt, and whether panicIf(err) lets the call go on
seqNumOf(flags) ==
    IF <<"i">> \notin DOMAIN flags
    THEN [ok |-> TRUE, value |-> 0]
    ELSE Atoi(flags[<<"i">>])

\* Variant of reverseOf whose else-if branch for "0" is missing.
reverseOfOnlyOne(flags, rm) ==
    IF <<"z">> \in DOMAIN flags /\ flags[<<"z">>] = <<"1">> THEN TRUE ELSE rm

\* lines 180-192: the command's reverse, from the z flag and the ambient mode
reverseOf(flags, rm) ==
    IF <<"z">> \in DOMAIN flags
    THEN IF flags[<<"z">>] = <<"1">> THEN TRUE
         ELSE IF flags[<<"z">>] = <<"0">> THEN FALSE
         ELSE rm
    ELSE rm

NoCmd == <<>>

\* lines 150-201; panic is the index-out-of-range of components[0] on a line
\* without tokens, or panicIf(err) after strconv.Atoi
parseCommand(fullCommand, rm) ==
    LET components == Fields(fullCommand)
    IN  IF components = <<>>
        THEN [panic |-> TRUE, cmd |-> NoCmd]
        ELSE LET flags == parseFlags(components, 0, NoFlags)
                 seq == seqNumOf(flags)
             IN  IF ~seq.ok
                 THEN [panic |-> TRUE, cmd |-> NoCmd]
                 ELSE [panic |-> FALSE,
                       cmd |-> [command |-> components[1],
                                fullCommand |-> fullCommand,
                                options |-> flags,
                                seqNum |-> seq.value,
                                reverse |-> reverseOf(flags, rm)]]

Verbs == {<<"r", "u", "n">>, <<"-", "i">>}
\* 2^63, the smallest number above the range of int
IntOverflow ==
    <<"9", "2", "2", "3", "3", "7", "2", "0", "3", "6", "8", "5", "4", "7", "7", "5",
      "8", "0", "8">>

ArgTokens ==
    {<<"-", "i">>, <<"-", "z">>, <<"0">>, <<"1">>, <<"x">>, <<"-", "7">>, IntOverflow}

\* What a line may begin with: nothing or a space
Leads == {<<>>, <<" ">>}

\* What separates the tokens of a line that began with whitespace: a tab, a
\* no-break space (U+00A0) and a carriage return with its newline
WideSeparator == <<"\t", "C2", "A0", "\r", "\n">>

\* The IDE writes the next token of a command line on the connection: the
\* verb first, after optional leading whitespace, then up to MaxArgs tokens.
\* A line that began with whitespace separates its tokens by WideSeparator,
\* any other line by one space. The number out of range comes as the value
\* of the first flag only.
ideSend(tok, lead) ==
    /\ parsePc \in {"reading", "returned"}
    /\ LET fresh == parsePc = "returned"
           toks == IF fresh THEN <<>> ELSE ideTokens
           line == IF fresh THEN <<>> ELSE ideLine
       IN  /\ Len(toks) < MaxArgs + 1
           /\ IF toks = <<>>
              THEN tok \in Verbs /\ ideLine' = lead \o tok
              ELSE /\ tok \in ArgTokens
                   /\ tok = IntOverflow => Len(toks) = 2
                   /\ lead = <<>>
                   /\ ideLine' = line
                                 \o (IF SpaceLenAt(line, 1) > 0
                                     THEN WideSeparator ELSE <<" ">>)
                                 \o tok
           /\ ideTokens' = Append(toks, tok)
    /\ parsePc' = "reading"
    /\ dCmd' = NoCmd
    /\ UNCHANGED <<reverseMode, overrideSeen>>
    /\ UNCHANGED <<engineVars, frameVars, stringVars, verboseVars, evalVars, sessionVars>>

\* Variant of parseCommandCall in which reverseMode is the session's variable
\* itself, not a copy: the assignments of lines 188 and 190 reach the session.
parseCommandCallSharedMode ==
    /\ parsePc = "reading"
    /\ LET r == parseCommand(ideLine, reverseMode)
       IN  /\ parsePc' = IF r.panic THEN "panicked" ELSE "returned"
           /\ dCmd' = r.cmd
           /\ reverseMode' = IF r.panic THEN reverseMode ELSE r.cmd.reverse
           /\ overrideSeen' =
                 (overrideSeen \/ (~r.panic /\ r.cmd.reverse # reverseMode))
    /\ UNCHANGED <<ideTokens, ideLine>>
    /\ UNCHANGED <<engineVars, frameVars, stringVars, verboseVars, evalVars, sessionVars>>

\* The dispatch loop parses the line it has read: dCmd = parseCommand(line,
\* reverseMode); reverseMode is passed by value.
parseCommandCall ==
    /\ parsePc = "reading"
    /\ LET r == parseCommand(ideLine, reverseMode)
       IN  /\ parsePc' = IF r.panic THEN "panicked" ELSE "returned"
           /\ dCmd' = r.cmd
           /\ overrideSeen' =
                 (overrideSeen \/ (~r.panic /\ r.cmd.reverse # reverseMode))
    /\ UNCHANGED <<ideTokens, ideLine, reverseMode>>
    /\ UNCHANGED <<engineVars, frameVars, stringVars, verboseVars, evalVars, sessionVars>>

(***************************************************************************)
(* Protocol codec: constructDbgpPacket                                     *)
(***************************************************************************)
\* line 264: <?xml version="1.0" encoding="iso-8859-1"?> and a newline, as bytes
headerXML ==
    <<60, 63, 120, 109, 108, 32, 118, 101, 114, 115, 105, 111, 110, 61, 34, 49,
      46, 48, 34, 32, 101, 110, 99, 111, 100, 105, 110, 103, 61, 34, 105, 115,
      111, 45, 56, 56, 53, 57, 45, 49, 34, 63, 62, 10>>

\* strconv.Itoa of a number >= 0: its decimal digits as ASCII bytes
RECURSIVE Itoa(_)
Itoa(n) == IF n < 10 THEN <<48 + n>> ELSE Append(Itoa(n \div 10), 48 + (n % 10))

\* Variant of constructDbgpPacket whose length prefix counts the payload only.
constructDbgpPacketPayloadLength(p) ==
    Itoa(Len(p)) \o <<0>> \o headerXML \o p \o <<0>>

\* lines 263-272
constructDbgpPacket(p) ==
    Itoa(Len(p) + Len(headerXML)) \o <<0>> \o headerXML \o p \o <<0>>

\* The handler's response is framed for the IDE connection.
constructDbgpPacketCall ==
    /\ framePc = "ready"
    /\ packet' = constructDbgpPacket(payload)
    /\ framePc' = "done"
    /\ UNCHANGED payload
    /\ UNCHANGED <<engineVars, parseVars, stringVars, verboseVars, evalVars, sessionVars>>

(***************************************************************************)
(* Native-debugger adapter: decoding of string results                     *)
(***************************************************************************)
Backslash == "\\"
Quote == "\""

\* U+FFFD as UTF-8: what range yields, and WriteRune writes, for a byte that
\* starts no valid encoding
ReplacementChar == <<"EF", "BF", "BD">>

\* The number of bytes of the UTF-8 encoding that starts at byte offset i
\* (from 0), 0 when the bytes there are no valid encoding: one byte below
\* 0x80; a lead byte C2..DF, E0..EF or F0..F4 with one, two or three
\* continuation bytes 80..BF, the first of them narrowed after E0 (A0..BF),
\* ED (80..9F), F0 (90..BF) and F4 (80..8F)
RuneLen(input, i) ==
    LET b0 == HighByteValue(input[i + 1])
        size == IF b0 < 224 THEN 2 ELSE IF b0 < 240 THEN 3 ELSE 4
        lo == IF b0 = 224 THEN 160 ELSE IF b0 = 240 THEN 144 ELSE 128
        hi == IF b0 = 237 THEN 159 ELSE IF b0 = 244 THEN 143 ELSE 191
    IN  IF b0 = 0 THEN 1
        ELSE IF b0 < 194 \/ b0 > 244 THEN 0
        ELSE IF i + size > Len(input) THEN 0
        ELSE IF /\ HighByteValue(input[i + 2]) \in lo..hi
                /\ \A j \in 3..size : HighByteValue(input[i + j]) \in 128..191
             THEN size
             ELSE 0

\* lines 129-148: the range loop over input, c the rune at byte offset i
\* (from 0; input[i] of the code is input[i + 1] here). The test i < l holds
\* at every offset, so input[i+1] of line 139 is read past the end when the
\* backslash is the last byte: an index-out-of-range panic. WriteRune writes
\* a valid rune as the bytes it was read from, and U+FFFD for an invalid byte.
RECURSIVE unquoteFrom(_, _, _, _)
unquoteFrom(input, i, skip, buf) ==
    IF i >= Len(input)
    THEN [panic |-> FALSE, out |-> buf]
    ELSE LET n == RuneLen(input, i)
             next == i + (IF n = 0 THEN 1 ELSE n)
             c == IF n = 0 THEN ReplacementChar ELSE SubSeq(input, i + 1, i + n)
         IN  IF skip
             THEN unquoteFrom(input, next, FALSE, buf)
             ELSE IF input[i + 1] = Backslash /\ i < Len(input)
                  THEN IF i + 1 >= Len(input)
                       THEN [panic |-> TRUE, out |-> <<>>]
                       ELSE IF input[i + 2] = Quote
                            THEN unquoteFrom(input, next, TRUE, Append(buf, Quote))
                            ELSE unquoteFrom(input, next, FALSE, buf \o c)
                  ELSE unquoteFrom(input, next, FALSE, buf \o c)

unquoteGdbStringResult(input) == unquoteFrom(input, 0, FALSE, <<>>)

\* strings.Index and strings.LastIndex of a one-byte string, from 0, -1 if absent
IndexOf(s, c) ==
    IF \E j \in 1..Len(s) : s[j] = c
    THEN (CHOOSE j \in 1..Len(s) : s[j] = c /\ \A k \in 1..(j - 1) : s[k] # c) - 1
    ELSE 0 - 1

LastIndexOf(s, c) ==
    IF \E j \in 1..Len(s) : s[j] = c
    THEN (CHOOSE j \in 1..Len(s) : s[j] = c /\ \A k \in (j + 1)..Len(s) : s[k] # c) - 1
    ELSE 0 - 1

\* lines 117-127
parseGdbStringResponse(gdbResponse) ==
    LET first == IndexOf(gdbResponse, Quote)
        last == LastIndexOf(gdbResponse, Quote)
    IN  IF first = last \/ first = 0 - 1 \/ last = 0 - 1
        THEN [panic |-> FALSE, out |-> <<>>, err |-> TRUE]
        ELSE LET unquote == unquoteGdbStringResult(SubSeq(gdbResponse, first + 2, last))
             IN  [panic |-> unquote.panic, out |-> unquote.out, err |-> FALSE]

unquoteGdbStringResultCall ==
    /\ strPc = "ready"
    /\ LET r == unquoteGdbStringResult(gdbText)
       IN  /\ strPc' = IF r.panic THEN "panicked" ELSE "returned"
           /\ strOut' = r.out
    /\ strCall' = "unquote"
    /\ UNCHANGED <<gdbText, strErr>>
    /\ UNCHANGED <<engineVars, parseVars, frameVars, verboseVars, evalVars, sessionVars>>

parseGdbStringResponseCall ==
    /\ strPc = "ready"
    /\ LET r == parseGdbStringResponse(gdbText)
       IN  /\ strPc' = IF r.panic THEN "panicked" ELSE "returned"
           /\ strOut' = r.out
           /\ strErr' = r.err
    /\ strCall' = "parse"
    /\ UNCHANGED gdbText
    /\ UNCHANGED <<engineVars, parseVars, frameVars, verboseVars, evalVars, sessionVars>>

InitStringIdle ==
    /\ gdbText = <<>>
    /\ strCall = "none"
    /\ strPc = "ready"
    /\ strOut = <<>>
    /\ strErr = FALSE

(***************************************************************************)
(* Noisy calls: sendGdbCommandNoisy and makeNoisy                          *)
(***************************************************************************)
InNoisySend ==
    noisyStack # <<>> /\ noisyStack[Len(noisyStack)].fn = "sendGdbCommandNoisy"

InMakeNoisy ==
    noisyStack # <<>> /\ noisyStack[Len(noisyStack)].fn = "makeNoisy"

Pop(stack) == SubSeq(stack, 1, Len(stack) - 1)

\* A plain sendGdbCommand (lines 88-105), made by the dispatch loop or by a
\* handler running under makeNoisy: it prints its trace when VerboseFlag is
\* set and ends the process when Send fails.
sendGdbCommandPlain(sendOk) ==
    /\ verbosePc = "alive"
    /\ ~InNoisySend
    /\ noisyCalls < MaxNoisyCalls
    /\ noisyCalls' = noisyCalls + 1
    /\ lastTraced' = VerboseFlag
    /\ verbosePc' = IF sendOk THEN "alive" ELSE "exited"
    /\ UNCHANGED <<VerboseFlag, verboseAtStart, noisyStack>>
    /\ UNCHANGED <<engineVars, parseVars, frameVars, stringVars, evalVars, sessionVars>>

\* lines 108-110: originalNoisy is saved, VerboseFlag set, and sendGdbCommand
\* entered (it prints the request under the flag as it now is)
sendGdbCommandNoisyEnter ==
    /\ verbosePc = "alive"
    /\ ~InNoisySend
    /\ noisyCalls < MaxNoisyCalls
    /\ Len(noisyStack) < MaxNoisyDepth
    /\ noisyCalls' = noisyCalls + 1
    /\ noisyStack' = Append(noisyStack,
                            [fn |-> "sendGdbCommandNoisy", originalNoisy |-> VerboseFlag])
    /\ VerboseFlag' = TRUE
    /\ lastTraced' = VerboseFlag'
    /\ UNCHANGED <<verboseAtStart, verbosePc>>
    /\ UNCHANGED <<engineVars, parseVars, frameVars, stringVars, evalVars, sessionVars>>

\* Variant of sendGdbCommandNoisyReturn that switches the flag off instead of
\* restoring originalNoisy.
sendGdbCommandNoisyReturnSwitchesOff(sendOk) ==
    /\ verbosePc = "alive"
    /\ InNoisySend
    /\ IF sendOk
       THEN /\ VerboseFlag' = FALSE
            /\ noisyStack' = Pop(noisyStack)
            /\ UNCHANGED verbosePc
       ELSE /\ verbosePc' = "exited"
            /\ UNCHANGED <<VerboseFlag, noisyStack>>
    /\ UNCHANGED <<verboseAtStart, noisyCalls, lastTraced>>
    /\ UNCHANGED <<engineVars, parseVars, frameVars, stringVars, evalVars, sessionVars>>

\* lines 110-112: Send comes back; fatalIf ends the process on an error,
\* otherwise VerboseFlag = originalNoisy and the call returns
sendGdbCommandNoisyReturn(sendOk) ==
    /\ verbosePc = "alive"
    /\ InNoisySend
    /\ IF sendOk
       THEN /\ VerboseFlag' = noisyStack[Len(noisyStack)].originalNoisy
            /\ noisyStack' = Pop(noisyStack)
            /\ UNCHANGED verbosePc
       ELSE /\ verbosePc' = "exited"
            /\ UNCHANGED <<VerboseFlag, noisyStack>>
    /\ UNCHANGED <<verboseAtStart, noisyCalls, lastTraced>>
    /\ UNCHANGED <<engineVars, parseVars, frameVars, stringVars, evalVars, sessionVars>>

\* lines 275-277: originalNoisy is saved, VerboseFlag set, and the handler f
\* entered
makeNoisyEnter ==
    /\ verbosePc = "alive"
    /\ ~InNoisySend
    /\ noisyCalls < MaxNoisyCalls
    /\ Len(noisyStack) < MaxNoisyDepth
    /\ noisyCalls' = noisyCalls + 1
    /\ noisyStack' = Append(noisyStack, [fn |-> "makeNoisy", originalNoisy |-> VerboseFlag])
    /\ VerboseFlag' = TRUE
    /\ UNCHANGED <<verboseAtStart, lastTraced, verbosePc>>
    /\ UNCHANGED <<engineVars, parseVars, frameVars, stringVars, evalVars, sessionVars>>

\* lines 277-279: the handler returns, VerboseFlag = originalNoisy; or the
\* handler panics, which nothing recovers: the process ends
makeNoisyReturn(handlerOk) ==
    /\ verbosePc = "alive"
    /\ InMakeNoisy
    /\ IF handlerOk
       THEN /\ VerboseFlag' = noisyStack[Len(noisyStack)].originalNoisy
            /\ noisyStack' = Pop(noisyStack)
            /\ UNCHANGED verbosePc
       ELSE /\ verbosePc' = "exited"
            /\ UNCHANGED <<VerboseFlag, noisyStack>>
    /\ UNCHANGED <<verboseAtStart, noisyCalls, lastTraced>>
    /\ UNCHANGED <<engineVars, parseVars, frameVars, stringVars, evalVars, sessionVars>>

InitVerboseIdle ==
    /\ VerboseFlag = FALSE
    /\ verboseAtStart = FALSE
    /\ noisyStack = <<>>
    /\ noisyCalls = 0
    /\ lastTraced = FALSE
    /\ verbosePc = "alive"

(***************************************************************************)
(* Native-debugger adapter: xGdbCmdValue                                   *)
(***************************************************************************)
\* Values of the response map (map[string]interface{}), by dynamic type
StringValue(str) == [kind |-> "string", str |-> str]
MapValue(fields) == [kind |-> "map", fields |-> fields]
NumberValue == [kind |-> "number"]

\* Variant of xGdbCmdValue without the test of the class against "done".
xGdbCmdValueAnyClass(result) ==
    IF "class" \notin DOMAIN result
    THEN [panic |-> TRUE, out |-> <<>>]
    ELSE IF "payload" \notin DOMAIN result \/ result["payload"].kind # "map"
         THEN [panic |-> TRUE, out |-> <<>>]
         ELSE LET fields == result["payload"].fields
              IN  IF "value" \notin DOMAIN fields \/ fields["value"].kind # "string"
                  THEN [panic |-> TRUE, out |-> <<>>]
                  ELSE [panic |-> FALSE, out |-> fields["value"].str]

\* lines 219-233, on the response sendGdbCommand returned: panicWith for a
\* missing class or one that is not "done"; the type assertions of lines
\* 230-231 panic on a payload that is no map or a value that is no string
xGdbCmdValue(result) ==
    IF "class" \notin DOMAIN result
    THEN [panic |-> TRUE, out |-> <<>>]
    ELSE IF result["class"] # StringValue("done")
         THEN [panic |-> TRUE, out |-> <<>>]
         ELSE IF "payload" \notin DOMAIN result \/ result["payload"].kind # "map"
              THEN [panic |-> TRUE, out |-> <<>>]
              ELSE LET fields == result["payload"].fields
                   IN  IF "value" \notin DOMAIN fields
                          \/ fields["value"].kind # "string"
                       THEN [panic |-> TRUE, out |-> <<>>]
                       ELSE [panic |-> FALSE, out |-> fields["value"].str]

\* lines 217-234: sendGdbCommand (fatalIf ends the process when Send fails),
\* then the checks on its result
xGdbCmdValueCall(result, sendOk) ==
    /\ xPc \in {"ready", "returned"}
    /\ xResult' = result
    /\ IF ~sendOk
       THEN xPc' = "exited" /\ xOut' = <<>>
       ELSE LET r == xGdbCmdValue(result)
            IN  /\ xPc' = IF r.panic THEN "panicked" ELSE "returned"
                /\ xOut' = r.out
    /\ UNCHANGED <<engineVars, parseVars, frameVars, stringVars, verboseVars,
                   sessionVars>>

InitEvalIdle ==
    /\ xResult = <<>>
    /\ xPc = "ready"
    /\ xOut = <<>>

InitParseIdle ==
    /\ ideTokens = <<>>
    /\ ideLine = <<>>
    /\ reverseMode = FALSE
    /\ dCmd = <<>>
    /\ parsePc = "reading"
    /\ overrideSeen = FALSE

InitFrameIdle ==
    /\ payload = <<>>
    /\ packet = <<>>
    /\ framePc = "ready"

Init ==
    InitEngine /\ InitParseIdle /\ InitFrameIdle /\ InitStringIdle /\ InitVerboseIdle
        /\ InitEvalIdle /\ InitSessionIdle

Next ==
    \/ \E rev \in BOOLEAN, sendOk \in BOOLEAN : continueExecutionCall(rev, sendOk)
    \/ continueExecutionReturn
    \/ \E id \in StopIds : stopNotify(id)
    \/ \E id \in BreakIds, t \in BOOLEAN, e \in BOOLEAN : breakpointSet(id, t, e)
    \/ \E id \in BreakIds : breakpointRemove(id)

Spec == Init /\ [][Next]_vars

\* The receiving goroutine is resumed once a value is on the channel; the
\* listener delivers the stop of a running exec-continue.
FairSpec ==
    /\ Spec
    /\ WF_vars(\E id \in StopIds : stopNotify(id))
    /\ WF_vars(continueExecutionReturn)

(***************************************************************************)
(* Properties of continueExecution                                         *)
(***************************************************************************)
\* A step in which a blocked continueExecution receives its stop id and returns
ReturnStep == pc = "waiting" /\ pc' = "idle" /\ breakStopNotify # <<>>

IsEnabledTemporary(bps, id) ==
    id \in DOMAIN bps /\ bps[id].enabled /\ bps[id].temporary

\* C1: a stop on an enabled temporary breakpoint B returns (B, TRUE) and leaves
\* B out of the registry; a later stop on the same B, with no breakpoint
\* registered under B in between, returns (B, FALSE) and changes no entry.
C1_TemporaryOneShot ==
    [][ReturnStep =>
          LET B == Head(breakStopNotify)
          IN  /\ IsEnabledTemporary(breakpoints, B) =>
                    /\ ret' = [id |-> B, hit |-> TRUE]
                    /\ B \notin DOMAIN breakpoints'
              /\ B \in oneShotGone =>
                    /\ ret' = [id |-> B, hit |-> FALSE]
                    /\ breakpoints' = breakpoints]_vars

\* A later continue got the id of a temporary breakpoint that had been hit
\* and removed, and reported no hit.
C1_Witness ==
    /\ pc = "idle"
    /\ ret.id \in oneShotGone
    /\ ret.hit = FALSE
    /\ ret.id \notin DOMAIN breakpoints

\* C2: while a call is blocked before its stop event status is running, and
\* from the receipt of the stop event on (the call has returned) it is break.
C2_StatusDuringContinue ==
    /\ pc = "waiting" => status = statusRunning
    /\ (gdbLog # <<>> /\ gdbLog[Len(gdbLog)].kind = "send") => status = statusRunning
    /\ (gdbLog # <<>> /\ gdbLog[Len(gdbLog)].kind = "recv") => status = statusBreak
    /\ status \in {statusStarting, statusRunning, statusBreak}

\* A second call is blocked with status running after a first one ended in break.
C2_Witness ==
    /\ pc = "waiting"
    /\ status = statusRunning
    /\ Len(gdbLog) >= 3
    /\ gdbLog[2].kind = "recv"

\* C3: a stop id that is no enabled temporary breakpoint leaves the registry
\* unchanged and is returned as received, with TRUE exactly when it is a
\* registered, enabled breakpoint.
C3_OtherStopsKeepRegistry ==
    [][ReturnStep =>
          LET B == Head(breakStopNotify)
          IN  ~IsEnabledTemporary(breakpoints, B) =>
                 /\ breakpoints' = breakpoints
                 /\ ret'.id = B
                 /\ ret'.hit = (B \in DOMAIN breakpoints /\ breakpoints[B].enabled)]_vars

\* A stop on a registered but disabled breakpoint was reported as no hit.
C3_Witness ==
    /\ pc = "idle"
    /\ status = statusBreak
    /\ ret.id \in DOMAIN breakpoints
    /\ ~breakpoints[ret.id].enabled
    /\ ret.hit = FALSE

\* C4: exec-continue requests and stop-event receipts alternate, starting
\* with a request; a request is outstanding exactly while the call is blocked
\* (or the process has exited on a failed send).
C4_RequestsAndStopsAlternate ==
    /\ \A i \in 1..Len(gdbLog) :
          /\ gdbLog[i].kind = (IF i % 2 = 1 THEN "send" ELSE "recv")
          /\ gdbLog[i].kind = "send" => gdbLog[i].data[1] = "exec-continue"
    /\ pc = "idle" => Len(gdbLog) % 2 = 0
    /\ pc \in {"waiting", "exited"} => Len(gdbLog) % 2 = 1

\* Two whole calls have been made, the second one underway or over.
C4_Witness ==
    /\ Len(gdbLog) >= 4
    /\ pc = "idle"
    /\ breakStopNotify = <<>>

\* C5: a blocked call returns, with status break, once the stop event is
\* delivered; while none is on the channel every step leaves the call
\* blocked and status running.
C5_ReturnsOnlyOnStopEvent ==
    /\ (pc = "waiting") ~> (pc = "idle" /\ status = statusBreak)
    /\ [][(pc = "waiting" /\ breakStopNotify = <<>>) =>
             (pc' = "waiting" /\ status' = statusRunning)]_vars

\* A call has returned with the id the listener delivered.
C5_Witness ==
    /\ pc = "idle"
    /\ status = statusBreak
    /\ ret.id \in StopIds
    /\ ~gdbRunning

ExpectedRegistry(bps, id) ==
    IF IsEnabledTemporary(bps, id) THEN [k \in (DOMAIN bps) \ {id} |-> bps[k]] ELSE bps

ExpectedReturn(bps, id) ==
    [id |-> id, hit |-> (id \in DOMAIN bps /\ bps[id].enabled)]

\* C6: the request carries --reverse exactly when reverse is true, and what a
\* call returns, the registry and the status it leaves are determined by the
\* registry and the stop id alone, whatever reverse is.
C6_ReverseDiffersOnlyInRequest ==
    [][/\ (pc = "idle" /\ pc' # "idle") =>
             gdbLog'[Len(gdbLog')].data =
                 (IF reverse' THEN <<"exec-continue", "--reverse">>
                  ELSE <<"exec-continue">>)
       /\ ReturnStep =>
             /\ ret' = ExpectedReturn(breakpoints, Head(breakStopNotify))
             /\ breakpoints' = ExpectedRegistry(breakpoints, Head(breakStopNotify))
             /\ status' = statusBreak
             /\ reverse' = reverse]_vars

\* A reverse continue has stopped on a temporary breakpoint and removed it.
C6_Witness ==
    /\ pc = "idle"
    /\ reverse
    /\ Len(gdbLog) >= 2
    /\ gdbLog[Len(gdbLog) - 1].data = <<"exec-continue", "--reverse">>
    /\ ret.hit
    /\ ret.id \in oneShotGone

(***************************************************************************)
(* parseCommand on the command lines an IDE sends                          *)
(***************************************************************************)
ParseInit ==
    /\ InitEngine
    /\ InitEvalIdle
    /\ InitSessionIdle
    /\ InitVerboseIdle
    /\ InitFrameIdle
    /\ InitStringIdle
    /\ ideTokens = <<>>
    /\ ideLine = <<>>
    /\ reverseMode \in BOOLEAN
    /\ dCmd = NoCmd
    /\ parsePc = "reading"
    /\ overrideSeen = FALSE

ParseNext ==
    \/ \E tok \in Verbs \cup ArgTokens, lead \in Leads : ideSend(tok, lead)
    \/ parseCommandCall

ParseSpec == ParseInit /\ [][ParseNext]_vars

(***************************************************************************)
(* Properties of parseCommand                                              *)
(***************************************************************************)
FlagI == <<"i">>
FlagZ == <<"z">>

\* C8: the returned command's reverse is TRUE when its options bind z to "1",
\* FALSE when they bind z to "0", whatever the ambient mode, and the ambient
\* mode when z is unbound or bound to anything else.
C8_ReverseFromZFlag ==
    parsePc = "returned" =>
        LET opts == dCmd.options
        IN  /\ (FlagZ \in DOMAIN opts /\ opts[FlagZ] = <<"1">>) => dCmd.reverse = TRUE
            /\ (FlagZ \in DOMAIN opts /\ opts[FlagZ] = <<"0">>) => dCmd.reverse = FALSE
            /\ FlagZ \notin DOMAIN opts => dCmd.reverse = reverseMode
            /\ (FlagZ \in DOMAIN opts /\ opts[FlagZ] \notin {<<"0">>, <<"1">>}) =>
                   dCmd.reverse = reverseMode

\* With the ambient mode TRUE, a command carrying -z 0 came back with reverse FALSE.
C8_Witness ==
    /\ parsePc = "returned"
    /\ reverseMode = TRUE
    /\ FlagZ \in DOMAIN dCmd.options
    /\ dCmd.options[FlagZ] = <<"0">>
    /\ dCmd.reverse = FALSE

\* C9: parseCommand leaves the session's ambient mode alone, and a command
\* whose options do not bind z gets the ambient mode the session had before
\* the call, whatever the commands parsed before it carried.
C9_OverrideIsPerCommand ==
    [][/\ reverseMode' = reverseMode
       /\ (parsePc = "reading" /\ parsePc' = "returned"
             /\ FlagZ \notin DOMAIN dCmd'.options) =>
              dCmd'.reverse = reverseMode]_vars

\* After an earlier command's -z had overridden the ambient mode, a command
\* without z came back with the ambient mode.
C9_Witness ==
    /\ parsePc = "returned"
    /\ overrideSeen
    /\ FlagZ \notin DOMAIN dCmd.options
    /\ dCmd.reverse = reverseMode

\* The tokens at flag positions: the first, third, ... after the verb
FlagPositions(toks) == {j \in 2..Len(toks) : j % 2 = 0}

\* The value the line gives flag key: the token after its last occurrence at
\* a flag position, empty when that occurrence ends the line
BoundAt(toks, key) == {j \in FlagPositions(toks) : Tail(toks[j]) = key}
LastOf(S) == CHOOSE j \in S : \A k \in S : k <= j
ValueOf(toks, key) ==
    LET j == LastOf(BoundAt(toks, key))
    IN  IF j + 1 <= Len(toks) THEN toks[j + 1] ELSE <<>>

DecimalDigits == {"0", "1", "2", "3", "4", "5", "6", "7", "8", "9"}

\* The digits from the first one that is not 0
Significant(ds) ==
    IF \A j \in 1..Len(ds) : ds[j] = "0" THEN <<>>
    ELSE SubSeq(ds, CHOOSE j \in 1..Len(ds) : ds[j] # "0" /\ \A k \in 1..(j - 1) : ds[k] = "0",
                Len(ds))

\* The digits denote a number of at most 2^63 - 1 (2^63 below zero): fewer
\* digits than the limit, or as many and the smaller digit where they first
\* differ
FitsInt(ds, limit) ==
    LET sig == Significant(ds)
    IN  \/ Len(sig) < Len(limit)
        \/ sig = limit
        \/ /\ Len(sig) = Len(limit)
           /\ \E k \in 1..Len(sig) :
                 /\ \A j \in 1..(k - 1) : sig[j] = limit[j]
                 /\ \E d \in 1..9 : DigitChars[d] = sig[k]
                                     /\ \E e \in (d + 1)..10 : DigitChars[e] = limit[k]

\* A decimal integer an int holds
IsDecimal(v) ==
    LET ds == IF v # <<>> /\ v[1] \in {"+", "-"} THEN Tail(v) ELSE v
    IN  /\ ds # <<>>
        /\ \A j \in 1..Len(ds) : ds[j] \in DecimalDigits
        /\ FitsInt(ds, MaxIntDigits(v[1] = "-"))

\* C10 as stated: on a line that has a verb parseCommand never panics.
C10_NeverPanics == ideTokens # <<>> => parsePc # "panicked"

\* C10 amended: on a line that has a verb parseCommand panics exactly when
\* the line binds i to a value that is no decimal integer an int holds (a
\* non-numeric value, the empty value of a trailing -i, or a number out of
\* range); in every other case (odd
\* token count, trailing flag, tokens without a dash, repeated flags) it
\* returns a command.
C10_PanicsOnlyOnBadSeqNum ==
    (ideTokens # <<>> /\ parsePc \in {"returned", "panicked"}) =>
        (parsePc = "panicked" <=>
            /\ BoundAt(ideTokens, FlagI) # {}
            /\ ~IsDecimal(ValueOf(ideTokens, FlagI)))

\* A line with an odd number of tokens after the verb, ending in a flag
\* without a value and holding a token without a dash at a flag position,
\* came back as a command.
C10_Witness ==
    /\ parsePc = "returned"
    /\ Len(ideTokens) = 4
    /\ ideTokens[2] = <<"x">>
    /\ Tail(ideTokens[4]) \in DOMAIN dCmd.options
    /\ dCmd.options[Tail(ideTokens[4])] = <<>>

\* The integer a decimal token denotes, digit by digit from the left
RECURSIVE LeftValue(_, _)
LeftValue(ds, acc) ==
    IF ds = <<>> THEN acc
    ELSE LeftValue(Tail(ds),
                   10 * acc + (CHOOSE d \in 0..9 :
                                  <<"0", "1", "2", "3", "4", "5", "6", "7", "8", "9">>[d + 1]
                                      = Head(ds)))

IntOf(v) ==
    IF v[1] = "-" THEN 0 - LeftValue(Tail(v), 0)
    ELSE IF v[1] = "+" THEN LeftValue(Tail(v), 0)
    ELSE LeftValue(v, 0)

\* A decimal integer of any size: an optional sign and one or more digits
IsNumeral(v) ==
    LET ds == IF v # <<>> /\ v[1] \in {"+", "-"} THEN Tail(v) ELSE v
    IN  ds # <<>> /\ \A j \in 1..Len(ds) : ds[j] \in DecimalDigits

\* C11 as stated: on a line that has a verb parseCommand returns seqNum 0
\* when the line binds no i flag and returns seqNum n when it binds i to a
\* decimal integer n, of whatever size; the returned command is the first
\* token and its fullCommand is the raw line.
C11_SequenceNumber ==
    (ideTokens # <<>> /\ parsePc \in {"returned", "panicked"}) =>
        /\ BoundAt(ideTokens, FlagI) = {} =>
               /\ parsePc = "returned"
               /\ dCmd.seqNum = 0
        /\ (BoundAt(ideTokens, FlagI) # {} /\ IsNumeral(ValueOf(ideTokens, FlagI))) =>
               /\ parsePc = "returned"
               /\ dCmd.seqNum = IntOf(ValueOf(ideTokens, FlagI))
        /\ parsePc = "returned" =>
               /\ dCmd.command = ideTokens[1]
               /\ dCmd.fullCommand = ideLine

\* C11 amended: on a line that has a verb parseCommand returns seqNum 0 when
\* the line binds no i flag, and returns seqNum n when it binds i to a
\* decimal integer n that an int holds; the returned command is the first
\* token and its fullCommand is the raw line.
C11_SequenceNumberInRange ==
    (ideTokens # <<>> /\ parsePc \in {"returned", "panicked"}) =>
        /\ BoundAt(ideTokens, FlagI) = {} =>
               /\ parsePc = "returned"
               /\ dCmd.seqNum = 0
        /\ (BoundAt(ideTokens, FlagI) # {} /\ IsDecimal(ValueOf(ideTokens, FlagI))) =>
               /\ parsePc = "returned"
               /\ dCmd.seqNum = IntOf(ValueOf(ideTokens, FlagI))
        /\ parsePc = "returned" =>
               /\ dCmd.command = ideTokens[1]
               /\ dCmd.fullCommand = ideLine

\* A line with leading whitespace whose first flag carries the number out of
\* range and whose i flag is bound to -7 came back with seqNum -7 and the raw
\* line, whitespace included, as fullCommand.
C11_Witness ==
    /\ parsePc = "returned"
    /\ ideLine[1] = " "
    /\ Len(ideTokens) = 5
    /\ ideTokens[2] = <<"-", "z">>
    /\ ideTokens[3] = IntOverflow
    /\ BoundAt(ideTokens, FlagI) # {}
    /\ dCmd.seqNum = 0 - 7
    /\ dCmd.fullCommand = ideLine
    /\ dCmd.command = <<"r", "u", "n">>

\* C12: the options of a returned command bind exactly the tokens at flag
\* positions, each with its first character removed, to the token that
\* follows (empty for a flag that ends the line), the last occurrence of a
\* repeated flag deciding.
C12_FlagPairing ==
    parsePc = "returned" =>
        /\ DOMAIN dCmd.options = {Tail(ideTokens[j]) : j \in FlagPositions(ideTokens)}
        /\ \A key \in DOMAIN dCmd.options :
               dCmd.options[key] = ValueOf(ideTokens, key)

\* A line that repeats a flag with two different values came back with the
\* second value bound.
C12_Witness ==
    /\ parsePc = "returned"
    /\ Len(ideTokens) = 5
    /\ ideTokens[2] = ideTokens[4]
    /\ ideTokens[3] # ideTokens[5]
    /\ dCmd.options[Tail(ideTokens[4])] = ideTokens[5]
    /\ Cardinality(DOMAIN dCmd.options) = 1

(***************************************************************************)
(* constructDbgpPacket on response payloads                                *)
(***************************************************************************)
\* Payload bytes: NUL, the digit 1, the letter x and a byte above 127
PayloadBytes == {0, 49, 120, 233}
\* Lengths of the run of x bytes that follows the freely chosen prefix; with
\* the 44 header bytes they take the length prefix to three and four digits
PadLengths == {0, 56, 956}

SeqsUpTo(S, n) == UNION {[1..k -> S] : k \in 0..n}

FrameInit ==
    /\ InitEngine
    /\ InitEvalIdle
    /\ InitSessionIdle
    /\ InitVerboseIdle
    /\ InitParseIdle
    /\ InitStringIdle
    /\ payload \in {prefix \o [j \in 1..k |-> 120] :
                       prefix \in SeqsUpTo(PayloadBytes, MaxPrefixLen), k \in PadLengths}
    /\ packet = <<>>
    /\ framePc = "ready"

FrameNext == constructDbgpPacketCall

FrameSpec == FrameInit /\ [][FrameNext]_vars

(***************************************************************************)
(* Properties of constructDbgpPacket                                       *)
(***************************************************************************)
RECURSIVE DigitsValue(_)
DigitsValue(bs) ==
    IF bs = <<>> THEN 0
    ELSE 10 * DigitsValue(SubSeq(bs, 1, Len(bs) - 1)) + (bs[Len(bs)] - 48)

\* A conformant DBGp reader: the decimal digits up to the first NUL give a
\* length, that many bytes are the data, one NUL ends the packet.
ReadPacket(bytes) ==
    LET nuls == {j \in 1..Len(bytes) : bytes[j] = 0}
    IN  IF nuls = {}
        THEN [ok |-> FALSE, length |-> 0, data |-> <<>>, rest |-> <<>>]
        ELSE LET z == CHOOSE j \in nuls : \A k \in nuls : j <= k
                 digits == SubSeq(bytes, 1, z - 1)
                 wellFormed == /\ digits # <<>>
                               /\ \A j \in 1..Len(digits) : digits[j] \in 48..57
                 L == IF wellFormed THEN DigitsValue(digits) ELSE 0
             IN  IF ~wellFormed \/ z + L + 1 > Len(bytes) \/ bytes[z + L + 1] # 0
                 THEN [ok |-> FALSE, length |-> 0, data |-> <<>>, rest |-> <<>>]
                 ELSE [ok |-> TRUE,
                       length |-> L,
                       data |-> SubSeq(bytes, z + 1, z + L),
                       rest |-> SubSeq(bytes, z + L + 2, Len(bytes))]

\* C7: reading constructDbgpPacket(P) by its length prefix succeeds, yields
\* the XML declaration header followed by P, leaves no byte over, and the
\* length read is len(header) + len(P).
C7_FramingRoundTrip ==
    framePc = "done" =>
        LET r == ReadPacket(packet)
        IN  /\ r.ok
            /\ r.length = Len(headerXML) + Len(payload)
            /\ r.data = headerXML \o payload
            /\ r.rest = <<>>

\* A payload that holds NUL bytes and takes the prefix to three digits was
\* framed and read back.
C7_Witness ==
    /\ framePc = "done"
    /\ Len(payload) >= 56
    /\ \E j \in 1..Len(payload) : payload[j] = 0
    /\ ReadPacket(packet).length >= 100
    /\ ReadPacket(packet).data = headerXML \o payload

(***************************************************************************)
(* The string decoders on debugger output                                  *)
(***************************************************************************)
\* The backslash, the quote, a letter, and the two bytes of U+00E9, each of
\* which alone is no valid UTF-8
TextChars == {Backslash, Quote, "a", "C3", "A9"}

StringInit ==
    /\ InitEngine
    /\ InitEvalIdle
    /\ InitSessionIdle
    /\ InitVerboseIdle
    /\ InitParseIdle
    /\ InitFrameIdle
    /\ gdbText \in UNION {[1..k -> TextChars] : k \in 0..MaxTextLen}
    /\ strCall = "none"
    /\ strPc = "ready"
    /\ strOut = <<>>
    /\ strErr = FALSE

StringNext ==
    \/ unquoteGdbStringResultCall
    \/ parseGdbStringResponseCall

StringSpec == StringInit /\ [][StringNext]_vars

(***************************************************************************)
(* Properties of the string decoders                                       *)
(***************************************************************************)
\* One pass from the left: a backslash with a quote right after it becomes
\* the quote, every other character is copied.
RECURSIVE Unescaped(_)
Unescaped(t) ==
    IF t = <<>> THEN <<>>
    ELSE IF Len(t) >= 2 /\ t[1] = Backslash /\ t[2] = Quote
         THEN <<Quote>> \o Unescaped(SubSeq(t, 3, Len(t)))
         ELSE <<t[1]>> \o Unescaped(Tail(t))

\* C13: unquoteGdbStringResult returns for every input, with every
\* backslash-quote pair replaced by the quote and every other character
\* copied.
C13_UnquoteIsTotal ==
    strCall = "unquote" =>
        /\ strPc = "returned"
        /\ strOut = Unescaped(gdbText)

QuotePositions(t) == {j \in 1..Len(t) : t[j] = Quote}
MinOf(S) == CHOOSE j \in S : \A k \in S : j <= k
MaxOf(S) == CHOOSE j \in S : \A k \in S : k <= j
Between(t) == SubSeq(t, MinOf(QuotePositions(t)) + 1, MaxOf(QuotePositions(t)) - 1)

\* C14: parseGdbStringResponse returns an error and the empty string exactly
\* for a response with fewer than two quotes, and for every other response
\* returns, without error, the unquoted text between the first and the last
\* quote.
C14_ParseStringResponse ==
    strCall = "parse" =>
        /\ strPc = "returned"
        /\ IF Cardinality(QuotePositions(gdbText)) < 2
           THEN strErr /\ strOut = <<>>
           ELSE ~strErr /\ strOut = Unescaped(Between(gdbText))

(***************************************************************************)
(* Noisy and plain calls under either setting of VerboseFlag               *)
(***************************************************************************)
VerboseInit ==
    /\ InitEngine
    /\ InitEvalIdle
    /\ InitSessionIdle
    /\ InitParseIdle
    /\ InitFrameIdle
    /\ InitStringIdle
    /\ VerboseFlag \in BOOLEAN
    /\ verboseAtStart = VerboseFlag
    /\ noisyStack = <<>>
    /\ noisyCalls = 0
    /\ lastTraced = FALSE
    /\ verbosePc = "alive"

VerboseNext ==
    \/ \E sendOk \in BOOLEAN : sendGdbCommandPlain(sendOk)
    \/ sendGdbCommandNoisyEnter
    \/ \E sendOk \in BOOLEAN : sendGdbCommandNoisyReturn(sendOk)
    \/ makeNoisyEnter
    \/ \E handlerOk \in BOOLEAN : makeNoisyReturn(handlerOk)

VerboseSpec == VerboseInit /\ [][VerboseNext]_vars

\* C15: VerboseFlag is true while any noisy call is in progress, nested or
\* not, and whenever none is in progress in the running process it has the
\* value it had before the calls; each returning noisy call puts back the
\* value that held when it began.
C15_VerbosityRestored ==
    /\ noisyStack # <<>> => VerboseFlag = TRUE
    /\ (noisyStack = <<>> /\ verbosePc = "alive") => VerboseFlag = verboseAtStart
    /\ \A d \in 1..Len(noisyStack) :
          noisyStack[d].originalNoisy = (IF d = 1 THEN verboseAtStart ELSE TRUE)
    /\ InNoisySend => lastTraced

\* With VerboseFlag off, several calls, a traced one last, are over and the
\* flag is off again.
C15_Witness ==
    /\ verbosePc = "alive"
    /\ noisyStack = <<>>
    /\ noisyCalls >= 3
    /\ lastTraced
    /\ verboseAtStart = FALSE
    /\ VerboseFlag = FALSE

(***************************************************************************)
(* xGdbCmdValue on the responses of the native debugger                    *)
(***************************************************************************)
ValueTexts == UNION {[1..k -> TextChars] : k \in 0..MaxValueLen}

ClassValues == {StringValue("done"), StringValue("error"), StringValue("running"),
                NumberValue}

PayloadFields ==
    {<<>>} \cup {[k \in {"value"} |-> v] :
                    v \in {StringValue(t) : t \in ValueTexts} \cup {NumberValue}}

PayloadValues == {MapValue(f) : f \in PayloadFields} \cup {StringValue(<<"a">>)}

\* A response with the given class and payload, each possibly missing
Response(hasClass, class, hasPayload, pl) ==
    [k \in (IF hasClass THEN {"class"} ELSE {})
           \cup (IF hasPayload THEN {"payload"} ELSE {}) |->
        IF k = "class" THEN class ELSE pl]

EvalInit ==
    /\ InitEngine
    /\ InitParseIdle
    /\ InitFrameIdle
    /\ InitStringIdle
    /\ InitVerboseIdle
    /\ InitEvalIdle
    /\ InitSessionIdle

EvalNext ==
    \E hasClass \in BOOLEAN, class \in ClassValues,
       hasPayload \in BOOLEAN, pl \in PayloadValues, sendOk \in BOOLEAN :
        xGdbCmdValueCall(Response(hasClass, class, hasPayload, pl), sendOk)

EvalSpec == EvalInit /\ [][EvalNext]_vars

(***************************************************************************)
(* Properties of xGdbCmdValue                                              *)
(***************************************************************************)
ClassIsDone(r) ==
    "class" \in DOMAIN r /\ r["class"].kind = "string" /\ r["class"].str = "done"

HasStringValue(r) ==
    /\ "payload" \in DOMAIN r
    /\ r["payload"].kind = "map"
    /\ "value" \in DOMAIN r["payload"].fields
    /\ r["payload"].fields["value"].kind = "string"

\* C16: a call on a response without class "done" ends in a panic and hands
\* back no value; a call that returns had class "done" and returns the
\* payload's value field; a response of class "done" with a string value
\* field is returned from.
C16_ValueOnlyWhenDone ==
    xPc \in {"returned", "panicked"} =>
        /\ ~ClassIsDone(xResult) => (xPc = "panicked" /\ xOut = <<>>)
        /\ xPc = "returned" =>
              /\ ClassIsDone(xResult)
              /\ HasStringValue(xResult)
              /\ xOut = xResult["payload"].fields["value"].str
        /\ (ClassIsDone(xResult) /\ HasStringValue(xResult)) => xPc = "returned"

\* A response of class "error" that carries a value field ended in a panic.
C16_Witness ==
    /\ xPc = "panicked"
    /\ "class" \in DOMAIN xResult
    /\ xResult["class"] = StringValue("error")
    /\ HasStringValue(xResult)
    /\ xResult["payload"].fields["value"].str # <<>>
    /\ xOut = <<>>

(***************************************************************************)
(* A failed Send                                                           *)
(***************************************************************************)
\* The last request was handed to a session whose Send failed: nothing is
\* running in the native debugger and no stop event answers it.
SendFailed ==
    /\ gdbLog # <<>>
    /\ gdbLog[Len(gdbLog)].kind = "send"
    /\ ~gdbRunning
    /\ breakStopNotify = <<>>

\* A step that sends a request whose Send fails
FailedSendStep ==
    /\ Len(gdbLog') = Len(gdbLog) + 1
    /\ gdbLog'[Len(gdbLog')].kind = "send"
    /\ ~gdbRunning'

\* C17: the step of a continueExecution whose exec-continue fails ends the
\* process: no result, no wait on the channel, the registry and the channel
\* untouched, status still running; and no step follows a failed Send, so
\* no request is sent again and status never becomes break.
C17_FailedSendIsTerminal ==
    [][/\ ~SendFailed
       /\ FailedSendStep =>
             /\ pc' = "exited"
             /\ ret' = NoRet
             /\ status' = statusRunning
             /\ breakpoints' = breakpoints
             /\ breakStopNotify' = breakStopNotify]_vars

\* After a first continue that stopped, the request of a second one failed
\* while a breakpoint was registered.
C17_Witness ==
    /\ pc = "exited"
    /\ SendFailed
    /\ Len(gdbLog) = 3
    /\ gdbLog[2].kind = "recv"
    /\ status = statusRunning
    /\ DOMAIN breakpoints # {}

(***************************************************************************)
(* Sequences of continueExecution calls on a session                       *)
(***************************************************************************)
Registries == UNION {[D -> engineBreakPoint] : D \in SUBSET BreakIds}

\* A session as the handlers left it: either fresh, or after a few requests
RegistryInit ==
    /\ status = statusStarting
    /\ breakpoints \in Registries
    /\ breakStopNotify = <<>>
    /\ pc = "idle"
    /\ reverse = FALSE
    /\ ret = NoRet
    /\ gdbLog = <<>>
    /\ gdbRunning = FALSE
    /\ oneShotGone = {}
    /\ \E used \in BOOLEAN :
          /\ lastSequenceNum = IF used THEN 1 ELSE 0
          /\ reason = IF used THEN reasonError ELSE reasonOk
          /\ featureMap = [k \in (IF used THEN {"max_depth"} ELSE {}) |-> "1"]
          /\ sourceMap = [k \in (IF used THEN {"/a.php"} ELSE {}) |-> 1]
    /\ esAtStart = SessionFields
    /\ InitParseIdle
    /\ InitFrameIdle
    /\ InitStringIdle
    /\ InitVerboseIdle
    /\ InitEvalIdle

RegistryNext ==
    \/ \E rev \in BOOLEAN, sendOk \in BOOLEAN : continueExecutionCall(rev, sendOk)
    \/ continueExecutionReturn
    \/ \E id \in StopIds : stopNotify(id)

RegistrySpec == RegistryInit /\ [][RegistryNext]_vars

\* The stop ids the calls so far received
ReceivedIds ==
    {gdbLog[i].data[1] : i \in {j \in 1..Len(gdbLog) : gdbLog[j].kind = "recv"}}

\* C18: after any sequence of continueExecution calls every entry of the
\* registry is an entry of the registry before the sequence, unchanged; the
\* entries gone are received stop ids, at most one per call; and
\* lastSequenceNum, reason, featureMap and sourceMap are as before.
C18_RegistryOnlyShrinks ==
    LET before == esAtStart.breakpoints
        removed == (DOMAIN before) \ (DOMAIN breakpoints)
    IN  /\ DOMAIN breakpoints \subseteq DOMAIN before
        /\ \A id \in DOMAIN breakpoints : breakpoints[id] = before[id]
        /\ removed = {id \in ReceivedIds : IsEnabledTemporary(before, id)}
        /\ Cardinality(removed) <= Cardinality({j \in 1..Len(gdbLog) : gdbLog[j].kind = "recv"})
        /\ lastSequenceNum = esAtStart.lastSequenceNum
        /\ reason = esAtStart.reason
        /\ featureMap = esAtStart.featureMap
        /\ sourceMap = esAtStart.sourceMap

\* Two calls returned on a used session: one entry is gone, one is left.
C18_Witness ==
    /\ pc = "idle"
    /\ Cardinality({j \in 1..Len(gdbLog) : gdbLog[j].kind = "recv"}) = 2
    /\ Cardinality(DOMAIN esAtStart.breakpoints) = 2
    /\ Cardinality(DOMAIN breakpoints) = 1
    /\ esAtStart.lastSequenceNum # 0

====
